---- MODULE Spec2Model ----
(***************************************************************************)
(* A model of histo.py: the HistoTree of per-directory file-age histograms *)
(* (insert, find, increment, summarize_histo_data, traverse_start and      *)
(* traverse_next) and the memoize decorator wrapped around HistoTree.find. *)
(*                                                                         *)
(* A Python str is the tuple of its characters, so that str.strip,         *)
(* str.split(os.sep) and os.path.split are computed and not assumed.       *)
(* A HistoNode is a record of the heap, addressed by its index (its        *)
(* identity); None is the index 0.                                         *)
(***************************************************************************)
EXTENDS Integers, Sequences, FiniteSets, Bags, TLC

VARIABLES
    heap,            \* the HistoNode objects, by identity: [name, parent, children, data]
    trees,           \* the HistoTree objects: [_root, _traverse_nodes]
    cached_results,  \* memoize's dictionary: <<tree, path>> -> result of find
    ret,             \* the last call: [op, exc, line, val, node]
    notfound,        \* history: the path of the last call of find that returned None
    recorded,        \* history: bag of the <<path, age>> of the increments that returned
    pre,             \* history: every node's data when summarize_histo_data was first called
    nsum,            \* history: number of calls of summarize_histo_data
    nstart,          \* history: number of calls of traverse_start
    emitted          \* history: the values traverse_next returned, in order

vars == <<heap, trees, cached_results, ret, notfound, recorded, pre, nsum, nstart, emitted>>

-----------------------------------------------------------------------------
(* Bounds of the model. *)

MaxIncs == 1      \* increments that return, in Spec
MaxObs == 3       \* increments that return, in SpecAgg
MaxSums == 2      \* calls of summarize_histo_data
MaxStarts == 2    \* calls of traverse_start
MaxIdle == 2      \* calls of traverse_next on an empty deque

-----------------------------------------------------------------------------
(* Python values. *)

None == 0

sep == "/"

Whitespace == {" "}

BIN_LABELS == <<"<1", "<5", "<7", "<14", "<30", "<60", "<90", "90+">>

BIN_DAYS == <<1, 5, 7, 14, 30, 60, 90>>

EMPTY_HISTO_DATA == <<0, 0, 0, 0, 0, 0, 0, 0>>

\* ord() of the characters the inputs are written in
Ord(c) ==
    CASE c = " " -> 32
      [] c = "." -> 46
      [] c = "/" -> 47
      [] c = "O" -> 79
      [] c = "R" -> 82
      [] c = "T" -> 84
      [] c = "a" -> 97
      [] c = "b" -> 98

\* s1 < s2 on str: the first differing character decides, a proper prefix is smaller
StrLess(s1, s2) ==
    \E i \in 1..(Len(s2)) :
        /\ \A j \in 1..(i - 1) : j <= Len(s1) /\ s1[j] = s2[j]
        /\ \/ Len(s1) = i - 1
           \/ Len(s1) >= i /\ Ord(s1[i]) < Ord(s2[i])

\* list.sort() of a list of distinct str: the ascending sequence of the set S
RECURSIVE Sorted(_)
Sorted(S) ==
    IF S = {} THEN << >>
    ELSE LET m == CHOOSE x \in S : \A y \in S \ {x} : StrLess(x, y)
         IN  <<m>> \o Sorted(S \ {m})

\* str.strip(): leading and trailing whitespace removed
RECURSIVE strip(_)
strip(s) ==
    IF s = << >> THEN s
    ELSE IF s[1] \in Whitespace THEN strip(Tail(s))
    ELSE IF s[Len(s)] \in Whitespace THEN strip(SubSeq(s, 1, Len(s) - 1))
    ELSE s

\* str.split(os.sep): the pieces between the separators, empty pieces kept
RECURSIVE split(_)
split(s) ==
    IF \A i \in 1..Len(s) : s[i] # sep THEN <<s>>
    ELSE LET i == CHOOSE k \in 1..Len(s) :
                      s[k] = sep /\ \A j \in 1..(k - 1) : s[j] # sep
         IN  <<SubSeq(s, 1, i - 1)>> \o split(SubSeq(s, i + 1, Len(s)))

\* str.rstrip('/')
RECURSIVE rstrip_sep(_)
rstrip_sep(s) ==
    IF s # << >> /\ s[Len(s)] = sep THEN rstrip_sep(SubSeq(s, 1, Len(s) - 1)) ELSE s

\* posixpath.split(p): <<head, tail>>; tail is what follows the last separator, head
\* what precedes it with its trailing separators removed unless it is separators only
os_path_split(p) ==
    LET slashes == {k \in 1..Len(p) : p[k] = sep}
        i == IF slashes = {} THEN 0
             ELSE CHOOSE k \in slashes : \A j \in slashes : j <= k
        head == SubSeq(p, 1, i)
        tail == SubSeq(p, i + 1, Len(p))
    IN  IF head # << >> /\ \E k \in 1..Len(head) : head[k] # sep
        THEN <<rstrip_sep(head), tail>>
        ELSE <<head, tail>>

-----------------------------------------------------------------------------
(* The strings the calls are made with. *)

DOT == <<".">>

ROOT == <<"R", "O", "O", "T">>

DotRoot == <<".", "/", "R", "O", "O", "T">>

Sub(p, name) == p \o <<sep>> \o name

pA == Sub(DotRoot, <<"a">>)
pB == Sub(DotRoot, <<"b">>)
pAB == Sub(pA, <<"b">>)
pBA == Sub(pB, <<"a">>)

\* paths under ./ROOT, as the scan writes directory names
GoodPaths == {DotRoot, pA, pB, pAB}

\* the same and one more of the second level
WalkPaths == GoodPaths \cup {pBA}

\* the same with whitespace around them
SpacedPaths == {<<" ">> \o pA, pB \o <<" ">>}

\* paths that do not start with the segments "." and "ROOT"
BadPaths == { << >>, DOT, <<".", sep, "a">>, <<sep>> \o ROOT \o <<sep, "a">> }

Paths == GoodPaths \cup SpacedPaths \cup BadPaths

\* ages in days, as fractions n/d: 0.5, 6 and 100 days
HalfDay == [n |-> 1, d |-> 2]
SixDays == [n |-> 6, d |-> 1]
HundredDays == [n |-> 100, d |-> 1]

Ages == {HalfDay, SixDays, HundredDays}

\* the youngest and the oldest of them
TwoAges == {HalfDay, HundredDays}

-----------------------------------------------------------------------------
(* HistoTree.HistoNode *)

\* HistoNode.__init__: no children, a list of its own copied from EMPTY_HISTO_DATA
HistoNode(name, parent) ==
    [name |-> name, parent |-> parent, children |-> << >>, data |-> EMPTY_HISTO_DATA]

\* HistoNode.get_child: self.children.get(name)
get_child(h, node, name) ==
    IF name \in DOMAIN h[node].children THEN h[node].children[name] ELSE None

\* as add_child, but the key is self.name, not child.name
add_child_misnamed(h, node, child) ==
    [h EXCEPT ![node].children = (h[node].name :> child) @@ @]

\* HistoNode.add_child: self.children[child.name] = child
add_child(h, node, child) ==
    [h EXCEPT ![node].children = (h[child].name :> child) @@ @]

\* the values of a dictionary
Values(f) == {f[k] : k \in DOMAIN f}

\* as node_summarize, but a child is added before it is summarized
RECURSIVE node_summarize_early(_, _, _)
node_summarize_early(h, node, todo) ==
    IF todo = {} THEN h
    ELSE LET child == CHOOSE c \in todo : TRUE
             h1 == [h EXCEPT ![node].data =
                        [i \in 1..Len(@) |-> @[i] + h[child].data[i]]]
             h2 == node_summarize_early(h1, child, Values(h1[child].children))
         IN  node_summarize_early(h2, node, todo \ {child})

\* HistoNode.summarize_histo_data: every child summarized, then added to this node
RECURSIVE node_summarize(_, _, _)
node_summarize(h, node, todo) ==
    IF todo = {} THEN h
    ELSE LET child == CHOOSE c \in todo : TRUE
             h1 == node_summarize(h, child, Values(h[child].children))
             h2 == [h1 EXCEPT ![node].data =
                        [i \in 1..Len(@) |-> @[i] + h1[child].data[i]]]
         IN  node_summarize(h2, node, todo \ {child})

-----------------------------------------------------------------------------
(* The outcome of a call: an exception ("" for none), a value, and the heap *)
(* and the cache the call leaves.                                          *)

Returns(val, node, h, cache) ==
    [exc |-> "", line |-> 0, val |-> val, node |-> node, heap |-> h, cache |-> cache]

\* line: the source line that raises
Raises(exc, line, h, cache) ==
    [exc |-> exc, line |-> line, val |-> None, node |-> None, heap |-> h, cache |-> cache]

-----------------------------------------------------------------------------
(* HistoTree *)

\* HistoTree.__init__ with the root at heap index root
HistoTree(root) == [_root |-> root, _traverse_nodes |-> << >>]

\* as insert_loop, but a node is created without asking get_child first
RECURSIVE insert_loop_blind(_, _, _)
insert_loop_blind(h, node, dirs) ==
    IF dirs = << >> THEN [heap |-> h, node |-> node]
    ELSE LET created == Len(h) + 1
             h1 == Append(h, HistoNode(Head(dirs), node))
         IN  insert_loop_blind(add_child(h1, node, created), created, Tail(dirs))

\* the for loop of insert: follow dirs from node, creating what get_child misses
RECURSIVE insert_loop(_, _, _)
insert_loop(h, node, dirs) ==
    IF dirs = << >> THEN [heap |-> h, node |-> node]
    ELSE LET new_node == get_child(h, node, Head(dirs))
         IN  IF new_node = None
             THEN LET created == Len(h) + 1
                      h1 == Append(h, HistoNode(Head(dirs), node))
                  IN  insert_loop(add_child(h1, node, created), created, Tail(dirs))
             ELSE insert_loop(h, new_node, Tail(dirs))

\* as insert, but the path is split as it is given, its whitespace kept
insert_unstripped(h, self, full_path_name, cache) ==
    LET dirs == split(full_path_name)
    IN  IF dirs[1] # DOT THEN Raises("InvalidPathError", 84, h, cache)
        ELSE IF Len(dirs) < 2 THEN Raises("IndexError", 83, h, cache)
        ELSE IF dirs[2] # ROOT THEN Raises("InvalidPathError", 84, h, cache)
        ELSE LET r == insert_loop(h, trees[self]._root, SubSeq(dirs, 3, Len(dirs)))
             IN  Returns(None, r.node, r.heap, cache)

\* HistoTree.insert
insert(h, self, full_path_name, cache) ==
    LET dirs == split(strip(full_path_name))
    IN  IF dirs[1] # DOT THEN Raises("InvalidPathError", 84, h, cache)
        ELSE IF Len(dirs) < 2 THEN Raises("IndexError", 83, h, cache)
        ELSE IF dirs[2] # ROOT THEN Raises("InvalidPathError", 84, h, cache)
        ELSE LET r == insert_loop(h, trees[self]._root, SubSeq(dirs, 3, Len(dirs)))
             IN  Returns(None, r.node, r.heap, cache)

RECURSIVE find(_, _, _, _)
RECURSIVE memoized(_, _, _, _)

\* as memoized, but a None is stored in the cache like any other result
memoized_storing_none(h, self, full_path_name, cache) ==
    LET args == <<self, full_path_name>>
    IN  IF args \in DOMAIN cache
        THEN Returns(cache[args], cache[args], h, cache)
        ELSE LET result == find(h, self, full_path_name, cache)
             IN  IF result.exc = ""
                 THEN [result EXCEPT !.cache = (args :> result.val) @@ @]
                 ELSE result

\* as memoized, but the key is the path alone: the trees share their entries
memoized_by_path(h, self, full_path_name, cache) ==
    LET args == <<CHOOSE t \in DOMAIN trees : TRUE, full_path_name>>
    IN  IF args \in DOMAIN cache
        THEN Returns(cache[args], cache[args], h, cache)
        ELSE LET result == find(h, self, full_path_name, cache)
             IN  IF result.exc = "" /\ result.val # None
                 THEN [result EXCEPT !.cache = (args :> result.val) @@ @]
                 ELSE result

\* memoize.memoized, around find: the cached result, or the computed one, which is
\* stored unless it is None; an exception of find passes through
memoized(h, self, full_path_name, cache) ==
    LET args == <<self, full_path_name>>
    IN  IF args \in DOMAIN cache
        THEN Returns(cache[args], cache[args], h, cache)
        ELSE LET result == find(h, self, full_path_name, cache)
             IN  IF result.exc = "" /\ result.val # None
                 THEN [result EXCEPT !.cache = (args :> result.val) @@ @]
                 ELSE result

\* HistoTree.find, the function memoize wraps. self.find is the memoized function.
\* A path made of separators only is its own dir_path: the recursion does not end
\* and Python raises RuntimeError (maximum recursion depth exceeded).
find(h, self, full_path_name, cache) ==
    LET sp == os_path_split(full_path_name)
        dir_path == sp[1]
        last_part == sp[2]
    IN  IF dir_path = DotRoot
        THEN LET n == get_child(h, trees[self]._root, last_part)
             IN  Returns(n, n, h, cache)
        ELSE IF dir_path = << >> THEN Raises("InvalidPathError", 138, h, cache)
        ELSE IF dir_path = full_path_name THEN Raises("RuntimeError", 140, h, cache)
        ELSE LET parent == memoized(h, self, dir_path, cache)
             IN  IF parent.exc # "" THEN parent
                 ELSE IF parent.val = None THEN parent
                 ELSE LET n == get_child(h, parent.val, last_part)
                      IN  Returns(n, n, h, parent.cache)

\* as AgeGE, but age > days: an age at a threshold stays below it
AgeGT(age, days) == age.n > days * age.d

\* age >= days, age the fraction n/d
AgeGE(age, days) == age.n >= days * age.d

\* the for loop of increment: one more bin for every leading threshold the age reaches
RECURSIVE bin_loop(_, _)
bin_loop(age, i) ==
    IF i > Len(BIN_DAYS) THEN 0
    ELSE IF AgeGE(age, BIN_DAYS[i]) THEN 1 + bin_loop(age, i + 1)
    ELSE 0

bin_num(age) == bin_loop(age, 1)

\* as increment, but the bin of every ancestor is incremented too
RECURSIVE bump_up(_, _, _)
bump_up(h, node, bin) ==
    IF node = None THEN h
    ELSE bump_up([h EXCEPT ![node].data[bin + 1] = @ + 1], h[node].parent, bin)

increment_eager(h, self, full_path_name, age, cache) ==
    LET found == memoized(h, self, full_path_name, cache)
    IN  IF found.exc # "" THEN found
        ELSE IF found.val = None THEN Raises("InvalidPathError", 157, h, found.cache)
        ELSE Returns(None, found.val, bump_up(h, found.val, bin_num(age)), found.cache)

\* as increment, but a path that is not found is inserted and then incremented
increment_inserting(h, self, full_path_name, age, cache) ==
    LET found == memoized(h, self, full_path_name, cache)
    IN  IF found.exc # "" THEN found
        ELSE IF found.val = None
        THEN LET made == insert(h, self, full_path_name, found.cache)
             IN  IF made.exc # "" THEN made
                 ELSE Returns(None, made.node,
                              [made.heap EXCEPT ![made.node].data[bin_num(age) + 1] = @ + 1],
                              found.cache)
        ELSE Returns(None, found.val,
                     [h EXCEPT ![found.val].data[bin_num(age) + 1] = @ + 1],
                     found.cache)

\* as increment, but the nodes share one list of counts: the bin is incremented in all
increment_shared(h, self, full_path_name, age, cache) ==
    LET found == memoized(h, self, full_path_name, cache)
    IN  IF found.exc # "" THEN found
        ELSE IF found.val = None THEN Raises("InvalidPathError", 157, h, found.cache)
        ELSE Returns(None, found.val,
                     [n \in DOMAIN h |-> [h[n] EXCEPT !.data[bin_num(age) + 1] = @ + 1]],
                     found.cache)

\* HistoTree.increment (node.data is indexed from 0 in the code, from 1 here)
increment(h, self, full_path_name, age, cache) ==
    LET found == memoized(h, self, full_path_name, cache)
    IN  IF found.exc # "" THEN found
        ELSE IF found.val = None THEN Raises("InvalidPathError", 157, h, found.cache)
        ELSE Returns(None, found.val,
                     [h EXCEPT ![found.val].data[bin_num(age) + 1] = @ + 1],
                     found.cache)

\* HistoTree.full_path_name
RECURSIVE full_path_name(_, _)
full_path_name(h, node) ==
    IF h[node].parent = None THEN h[node].name
    ELSE full_path_name(h, h[node].parent) \o <<sep>> \o h[node].name

\* as AppendChildren, but the keys are not sorted: the children come as created
AppendChildrenUnsorted(h, queue, node) ==
    LET kids == Values(h[node].children)
        RECURSIVE Ascending(_)
        Ascending(S) ==
            IF S = {} THEN << >>
            ELSE LET m == CHOOSE x \in S : \A y \in S : x <= y
                 IN  <<m>> \o Ascending(S \ {m})
    IN  queue \o Ascending(kids)

\* the for loop of traverse_next: the children appended in the order of the sorted keys
AppendChildren(h, queue, node) ==
    LET child_keys == Sorted(DOMAIN h[node].children)
    IN  queue \o [k \in 1..Len(child_keys) |-> h[node].children[child_keys[k]]]

-----------------------------------------------------------------------------
(* The calls, as steps. *)

Call(op, r) ==
    [op |-> op, exc |-> r.exc, line |-> r.line, val |-> r.val, node |-> r.node]

Void(op) == [op |-> op, exc |-> "", line |-> 0, val |-> None, node |-> None]

Insert(t, p) ==
    LET r == insert(heap, t, p, cached_results)
    IN  /\ heap' = r.heap
        /\ ret' = Call("insert", r)
        /\ UNCHANGED <<trees, cached_results, notfound, recorded, pre, nsum, nstart,
                       emitted>>

Find(t, p) ==
    LET r == memoized(heap, t, p, cached_results)
    IN  /\ cached_results' = r.cache
        /\ ret' = Call("find", r)
        /\ notfound' = IF r.exc = "" /\ r.val = None THEN <<p>> ELSE notfound
        /\ UNCHANGED <<heap, trees, recorded, pre, nsum, nstart, emitted>>

Increment(t, p, age) ==
    LET r == increment(heap, t, p, age, cached_results)
    IN  /\ heap' = r.heap
        /\ cached_results' = r.cache
        /\ ret' = Call("increment", r)
        /\ recorded' = IF r.exc = "" THEN recorded (+) SetToBag({<<p, age>>})
                       ELSE recorded
        /\ UNCHANGED <<trees, notfound, pre, nsum, nstart, emitted>>

\* as Summarize, but only the first call adds: a guard makes the later calls no-ops
SummarizeOnce(t) ==
    LET root == trees[t]._root
    IN  /\ heap' = IF nsum = 0 THEN node_summarize(heap, root, Values(heap[root].children))
                    ELSE heap
        /\ pre' = IF nsum = 0 THEN [n \in DOMAIN heap |-> heap[n].data] ELSE pre
        /\ nsum' = nsum + 1
        /\ ret' = Void("summarize_histo_data")
        /\ UNCHANGED <<trees, cached_results, notfound, recorded, nstart, emitted>>

\* HistoTree.summarize_histo_data
Summarize(t) ==
    LET root == trees[t]._root
    IN  /\ heap' = node_summarize(heap, root, Values(heap[root].children))
        /\ pre' = IF nsum = 0 THEN [n \in DOMAIN heap |-> heap[n].data] ELSE pre
        /\ nsum' = nsum + 1
        /\ ret' = Void("summarize_histo_data")
        /\ UNCHANGED <<trees, cached_results, notfound, recorded, nstart, emitted>>

\* HistoTree.traverse_start
TraverseStart(t) ==
    /\ trees' = [trees EXCEPT ![t]._traverse_nodes = Append(@, trees[t]._root)]
    /\ nstart' = nstart + 1
    /\ ret' = Void("traverse_start")
    /\ UNCHANGED <<heap, cached_results, notfound, recorded, pre, nsum, emitted>>

\* as TraverseNext, but the node is read at the left of the deque and not popped
TraverseNextNoPop(t) ==
    LET queue == trees[t]._traverse_nodes
        node == Head(queue)
        val == IF queue = << >> THEN << >>
               ELSE <<full_path_name(heap, node), heap[node].data>>
    IN  /\ trees' = IF queue = << >> THEN trees
                    ELSE [trees EXCEPT ![t]._traverse_nodes =
                              AppendChildren(heap, <<node>>, node)]
        /\ ret' = [Void("traverse_next") EXCEPT
                       !.val = val, !.node = IF queue = << >> THEN None ELSE node]
        /\ emitted' = Append(emitted, IF queue = << >> THEN << >> ELSE <<node>> \o val)
        /\ UNCHANGED <<heap, cached_results, notfound, recorded, pre, nsum, nstart>>

\* HistoTree.traverse_next; the tuple (None, None) is << >> here, and a returned
\* (path, data) is kept with the node it is of
TraverseNext(t) ==
    LET queue == trees[t]._traverse_nodes
        node == Head(queue)
        val == IF queue = << >> THEN << >>
               ELSE <<full_path_name(heap, node), heap[node].data>>
    IN  /\ trees' = IF queue = << >> THEN trees
                    ELSE [trees EXCEPT ![t]._traverse_nodes =
                              AppendChildren(heap, Tail(queue), node)]
        /\ ret' = [Void("traverse_next") EXCEPT
                       !.val = val, !.node = IF queue = << >> THEN None ELSE node]
        /\ emitted' = Append(emitted, IF queue = << >> THEN << >> ELSE <<node>> \o val)
        /\ UNCHANGED <<heap, cached_results, notfound, recorded, pre, nsum, nstart>>

-----------------------------------------------------------------------------
(* The program: tree = HistoTree(), then the calls in the order main makes *)
(* them: the ingestion loop, then summarizing, then the traverse.          *)

Init ==
    /\ heap = <<HistoNode(ROOT, None)>>
    /\ trees = <<HistoTree(1)>>
    /\ cached_results = << >>
    /\ ret = Void("HistoTree")
    /\ notfound = << >>
    /\ recorded = EmptyBag
    /\ pre = << >>
    /\ nsum = 0
    /\ nstart = 0
    /\ emitted = << >>

Ingesting == nsum = 0 /\ nstart = 0

\* the values traverse_next returned on an empty deque
Idle == Cardinality({k \in 1..Len(emitted) : emitted[k] = << >>})

\* the bounds on the calls
MaySummarize == nstart = 0 /\ nsum < MaxSums
MayStart == nstart < MaxStarts
MayNext(t) == trees[t]._traverse_nodes = << >> => Idle < MaxIdle

\* the calls of the ingestion loop, with any of the paths
ApiInsert == \E t \in DOMAIN trees : \E p \in Paths : Insert(t, p)

ApiFind == \E t \in DOMAIN trees : \E p \in Paths : Find(t, p)

ApiIncrement ==
    \E t \in DOMAIN trees : \E p \in Paths : \E age \in TwoAges :
        Increment(t, p, age) /\ BagCardinality(recorded') <= MaxIncs

Next == ApiInsert \/ ApiFind \/ ApiIncrement

Spec == Init /\ [][Next]_vars

\* the calls of the ingestion loop, with the paths P under ./ROOT
GoodInsert(P) ==
    /\ Ingesting
    /\ \E t \in DOMAIN trees : \E p \in P : Insert(t, p)

GoodIncrement(P, max) ==
    /\ Ingesting
    /\ \E t \in DOMAIN trees : \E p \in P : \E age \in Ages :
           Increment(t, p, age) /\ BagCardinality(recorded') <= max

\* ingestion, then summarizing
AggSummarize == MaySummarize /\ \E t \in DOMAIN trees : Summarize(t)

NextAgg == GoodInsert(GoodPaths) \/ GoodIncrement(GoodPaths, MaxObs) \/ AggSummarize

SpecAgg == Init /\ [][NextAgg]_vars

\* ingestion, then the traverse
WalkStart == MayStart /\ \E t \in DOMAIN trees : TraverseStart(t)

WalkNext == nstart > 0 /\ \E t \in DOMAIN trees : MayNext(t) /\ TraverseNext(t)

NextWalk ==
    GoodInsert(WalkPaths) \/ GoodIncrement(WalkPaths, MaxIncs) \/ WalkStart \/ WalkNext

SpecWalk == Init /\ [][NextWalk]_vars

-----------------------------------------------------------------------------
(* What the properties are stated with. *)

\* the node and its ancestors, by the parent references
RECURSIVE Ups(_, _)
Ups(h, node) == IF node = None THEN {} ELSE {node} \cup Ups(h, h[node].parent)

\* the node and its descendants
Subtree(h, node) == {m \in DOMAIN h : node \in Ups(h, m)}

RECURSIVE SumOver(_, _, _)
SumOver(S, f, i) ==
    IF S = {} THEN 0
    ELSE LET m == CHOOSE x \in S : TRUE IN f[m][i] + SumOver(S \ {m}, f, i)

\* the node reached from node along the names dirs by the parent references
RECURSIVE Walk(_, _, _)
Walk(h, node, dirs) ==
    IF node = None \/ dirs = << >> THEN node
    ELSE LET next == {m \in DOMAIN h : h[m].parent = node /\ h[m].name = Head(dirs)}
         IN  Walk(h, IF next = {} THEN None ELSE CHOOSE m \in next : TRUE, Tail(dirs))

\* the path starts with the segments "." and "ROOT"
WellPrefixed(p) ==
    LET dirs == split(p) IN Len(dirs) >= 2 /\ dirs[1] = DOT /\ dirs[2] = ROOT

\* the node of a path that starts with "./ROOT", None if there is none
NodeOf(h, t, p) ==
    LET dirs == split(p) IN Walk(h, trees[t]._root, SubSeq(dirs, 3, Len(dirs)))

\* the node of a path in the one tree of the program
Node(p) == NodeOf(heap, CHOOSE t \in DOMAIN trees : TRUE, p)

TheRoot == trees[CHOOSE t \in DOMAIN trees : TRUE]._root

-----------------------------------------------------------------------------
(* C1: after the one call of summarize_histo_data, every bin of every node *)
(* is the sum of what that bin held, before the call, in the node and in   *)
(* all of its descendants.                                                 *)

\* C1: after the one call, each bin is the sum over the subtree of the bins before
C1_SubtreeSums ==
    nsum = 1 =>
        \A n \in DOMAIN heap : \A i \in 1..Len(EMPTY_HISTO_DATA) :
            heap[n].data[i] = SumOver(Subtree(heap, n), pre, i)

\* a tree of three levels with observations on the second and on the third
C1_Witness ==
    /\ nsum = 1
    /\ \E n \in DOMAIN heap :
           /\ heap[n].parent # None
           /\ heap[heap[n].parent].parent = TheRoot
           /\ pre[n] # EMPTY_HISTO_DATA
           /\ pre[heap[n].parent] # EMPTY_HISTO_DATA
           /\ heap[TheRoot].data # EMPTY_HISTO_DATA

-----------------------------------------------------------------------------
(* C2: ./ROOT/a, ./ROOT/a/b and ./ROOT/b inserted, ages 0.5, 6 and 100     *)
(* recorded at ./ROOT/a/b, summarized once.                                *)

EndToEnd ==
    /\ nsum = 1
    /\ Len(heap) = Cardinality({DotRoot, pA, pAB, pB})
    /\ \A p \in {pA, pAB, pB} : Node(p) # None
    /\ recorded = SetToBag({<<pAB, HalfDay>>, <<pAB, SixDays>>, <<pAB, HundredDays>>})

\* C2 as claimed: the counts are [1,1,0,0,0,0,0,1] at ./ROOT/a and at ./ROOT/a/b
\* (age 6 in bin 1) and zeros at ./ROOT/b
C2_AsClaimed ==
    EndToEnd =>
        /\ heap[Node(pA)].data = <<1, 1, 0, 0, 0, 0, 0, 1>>
        /\ heap[Node(pAB)].data = <<1, 1, 0, 0, 0, 0, 0, 1>>
        /\ heap[Node(pB)].data = EMPTY_HISTO_DATA

\* C2 amended: the counts are [1,0,1,0,0,0,0,1] at ./ROOT/a and at ./ROOT/a/b
\* (age 6 is at least 5 and less than 7: bin 2, "<7") and zeros at ./ROOT/b
C2_EndToEnd ==
    EndToEnd =>
        /\ heap[Node(pA)].data = <<1, 0, 1, 0, 0, 0, 0, 1>>
        /\ heap[Node(pAB)].data = <<1, 0, 1, 0, 0, 0, 0, 1>>
        /\ heap[Node(pB)].data = EMPTY_HISTO_DATA

C2_Witness == EndToEnd /\ ret.op = "summarize_histo_data"

-----------------------------------------------------------------------------
(* C3: for every path insert accepts, the increment that follows the       *)
(* insert returns and adds one to one bin of the node the insert ended at. *)

\* the last call was an insert that returned, and it was, or might as well have
\* been, insert(p): insert(p) ends at the same node and has nothing left to create
JustInserted(t, p) ==
    /\ ret.op = "insert"
    /\ ret.exc = ""
    /\ LET made == insert(heap, t, p, cached_results)
       IN  made.exc = "" /\ made.node = ret.node /\ made.heap = heap

C3_Step ==
    \A t \in DOMAIN trees : \A p \in Paths : \A age \in TwoAges :
        (JustInserted(t, p) /\ Increment(t, p, age)) =>
            /\ ret'.exc = ""
            /\ ret'.node = ret.node
            /\ \E i \in DOMAIN EMPTY_HISTO_DATA :
                   heap' = [heap EXCEPT ![ret.node].data[i] = @ + 1]

\* C3: the increment of a path that follows its insert returns, and counts at the
\* node the insert ended at
C3_IncrementAfterInsert == [][C3_Step]_vars

-----------------------------------------------------------------------------
(* C4: increment with a path that starts with ./ROOT and has no node       *)
(* raises InvalidPathError at the node == None check and leaves every node *)
(* as it was, with no node created.                                        *)

\* C4: increment of a path under ./ROOT that has no node raises InvalidPathError
\* at line 157 and changes no node
C4_IncrementNotFound ==
    \A t \in DOMAIN trees : \A p \in Paths : \A age \in Ages :
        (WellPrefixed(p) /\ NodeOf(heap, t, p) = None) =>
            LET inc == increment(heap, t, p, age, cached_results)
            IN  /\ inc.exc = "InvalidPathError"
                /\ inc.line = 157
                /\ inc.heap = heap

C4_Witness ==
    /\ ret.op = "increment"
    /\ ret.exc = "InvalidPathError"
    /\ ret.line = 157
    /\ recorded # EmptyBag

-----------------------------------------------------------------------------
(* C5: whatever the calls, no two nodes have the same parent and name, a   *)
(* node keeps its name, its parent, its children and its counts (which     *)
(* only grow), find returns the node it returned before, and inserting a   *)
(* path again changes nothing.                                             *)

NoDuplicates(h) ==
    \A m, n \in DOMAIN h :
        (m # n /\ h[m].parent # None /\ h[m].parent = h[n].parent) => h[m].name # h[n].name

NodesKept(h1, h2) ==
    \A n \in DOMAIN h1 :
        /\ n \in DOMAIN h2
        /\ h2[n].name = h1[n].name
        /\ h2[n].parent = h1[n].parent
        /\ \A k \in DOMAIN h1[n].children :
               k \in DOMAIN h2[n].children /\ h2[n].children[k] = h1[n].children[k]
        /\ \A i \in DOMAIN h1[n].data : h2[n].data[i] >= h1[n].data[i]

\* find depends on the nodes and on the cache only
FindKept ==
    <<heap, cached_results>>' # <<heap, cached_results>> =>
        \A t \in DOMAIN trees : \A p \in Paths :
            LET before == memoized(heap, t, p, cached_results)
                after == memoized(heap', t, p, cached_results')
            IN  (before.exc = "" /\ before.val # None) =>
                    (after.exc = "" /\ after.val = before.val)

InsertAgain ==
    \A t \in DOMAIN trees : \A p \in Paths :
        LET made == insert(heap, t, p, cached_results)
            again == insert(made.heap, t, p, made.cache)
        IN  made.exc = "" =>
                (again.exc = "" /\ again.heap = made.heap /\ again.node = made.node)

C5_Step ==
    /\ NoDuplicates(heap')
    /\ NodesKept(heap, heap')
    /\ ret'.op = "insert" => \A n \in DOMAIN heap : heap'[n].data = heap[n].data
    /\ FindKept

\* C5: a path inserted again gets the node it has, and no step replaces a node,
\* makes a second one of a name, resets its counts or changes what find returns
C5_InsertIdempotent == []InsertAgain /\ [][C5_Step]_vars

\* insert has ended at a node that held counts
C5_Witness ==
    /\ ret.op = "insert"
    /\ ret.exc = ""
    /\ ret.node # None
    /\ heap[ret.node].data # EMPTY_HISTO_DATA

-----------------------------------------------------------------------------
(* C6: the traverse returns the nodes breadth first, the children of a     *)
(* node by ascending name: a parent before its children, siblings in       *)
(* ascending order, and the sequence is the one the set of paths decides.  *)

\* the values returned that are not (None, None): <<node, path, data>>
Visited == SelectSeq(emitted, LAMBDA e : e # << >>)

\* segments compared one by one
SegsLess(d1, d2) ==
    \E i \in 1..Len(d2) :
        /\ i <= Len(d1)
        /\ \A j \in 1..(i - 1) : d1[j] = d2[j]
        /\ StrLess(d1[i], d2[i])

\* breadth first with ascending names: the shallower path first, and of two paths
\* of one depth the one whose segments are smaller
PathBefore(p, q) ==
    LET dp == split(p)
        dq == split(q)
    IN  Len(dp) < Len(dq) \/ (Len(dp) = Len(dq) /\ SegsLess(dp, dq))

RECURSIVE InOrder(_)
InOrder(S) ==
    IF S = {} THEN << >>
    ELSE LET m == CHOOSE x \in S : \A y \in S \ {x} : PathBefore(x, y)
         IN  <<m>> \o InOrder(S \ {m})

AllPaths == {full_path_name(heap, n) : n \in DOMAIN heap}

\* C6: the nodes come breadth first with the children by ascending name, in the
\* order the set of paths decides, whatever the order of the inserts
C6_BreadthFirstByName ==
    nstart = 1 =>
        /\ Len(Visited) <= Len(heap)
        /\ \A k \in DOMAIN Visited :
               LET n == Visited[k][1]
               IN  /\ Visited[k][2] = InOrder(AllPaths)[k]
                   /\ heap[n].parent # None =>
                          \E j \in 1..(k - 1) : Visited[j][1] = heap[n].parent
                   /\ \A j \in 1..(k - 1) :
                          heap[Visited[j][1]].parent = heap[n].parent =>
                              StrLess(heap[Visited[j][1]].name, heap[n].name)

\* the whole of a tree of five nodes visited, in which the directory of the
\* greater name was created before its sibling
C6_Witness ==
    /\ nstart = 1
    /\ Len(Visited) = Len(heap)
    /\ Len(heap) = Cardinality(WalkPaths)
    /\ \E m, n \in DOMAIN heap :
           /\ m < n
           /\ heap[m].parent = heap[n].parent
           /\ StrLess(heap[n].name, heap[m].name)

-----------------------------------------------------------------------------
(* C7: after the one traverse_start, the first N calls of traverse_next    *)
(* return the N nodes of the tree, each once and with its data, every      *)
(* later call returns (None, None), and no call of the traverse changes a  *)
(* node.                                                                   *)

EachOnce ==
    \A k \in DOMAIN emitted :
        IF k <= Len(heap)
        THEN /\ emitted[k] # << >>
             /\ emitted[k][1] \in DOMAIN heap
             /\ emitted[k][3] = heap[emitted[k][1]].data
             /\ \A j \in 1..(k - 1) : emitted[j][1] # emitted[k][1]
        ELSE emitted[k] = << >>

C7_Step ==
    /\ nstart' = 1 => EachOnce'
    /\ ret'.op \in {"traverse_start", "traverse_next"} => heap' = heap

\* C7: one traverse returns every node once, then (None, None), and changes no node
C7_WalkCompleteOnce == [][C7_Step]_vars

C7_Witness ==
    /\ nstart = 1
    /\ Len(heap) > 2
    /\ Len(emitted) > Len(heap)
    /\ recorded # EmptyBag

-----------------------------------------------------------------------------
(* C8: insert with a path that does not start with the segments "." and    *)
(* "ROOT" raises InvalidPathError and leaves the tree as it was.           *)

C8_Step ==
    \A t \in DOMAIN trees : \A p \in Paths :
        (~WellPrefixed(strip(p)) /\ Insert(t, p)) =>
            (ret'.exc = "InvalidPathError" /\ heap' = heap /\ trees' = trees)

\* C8: insert of a path without the prefix ./ROOT raises InvalidPathError and
\* changes nothing
C8_InsertBadPrefix == [][C8_Step]_vars

-----------------------------------------------------------------------------
(* C9: find and increment with a path that does not start with the         *)
(* segments "." and "ROOT" raise InvalidPathError and change no node.      *)

C9_Step ==
    \A t \in DOMAIN trees : \A p \in Paths : \A age \in TwoAges :
        (~WellPrefixed(p) /\ (Find(t, p) \/ Increment(t, p, age))) =>
            (ret'.exc = "InvalidPathError" /\ heap' = heap)

\* C9: find and increment of a path without the prefix ./ROOT raise
\* InvalidPathError and change no node
C9_FindBadPrefix == [][C9_Step]_vars

-----------------------------------------------------------------------------
(* C10: the cache holds no None, and a path that find did not find is      *)
(* found, with the node it has now, once an insert has created that node.  *)

\* C10: no None is cached, and a path not found before is found once its node exists
C10_NoStaleNone ==
    /\ \A args \in DOMAIN cached_results : cached_results[args] # None
    /\ \A t \in DOMAIN trees : \A p \in Paths :
           (notfound = <<p>> /\ NodeOf(heap, t, p) # None) =>
               LET found == memoized(heap, t, p, cached_results)
               IN  found.exc = "" /\ found.val = NodeOf(heap, t, p)

\* find has returned the node of the path for which it last returned None
C10_Witness ==
    /\ notfound # << >>
    /\ ret.op = "find"
    /\ ret.val # None
    /\ ret.val = Node(notfound[1])

-----------------------------------------------------------------------------
(* C11: the path full_path_name gives for the node an insert ended at, and *)
(* the path traverse_next returns for a node, is the path that node was    *)
(* inserted with: "./ROOT" and the names of the node's segments.           *)

C11_Step ==
    /\ \A t \in DOMAIN trees : \A p \in WalkPaths :
           (Insert(t, p) /\ ret'.exc = "") => full_path_name(heap', ret'.node) = p
    /\ \A t \in DOMAIN trees : \A k \in DOMAIN emitted' :
           emitted'[k] # << >> =>
               /\ WellPrefixed(emitted'[k][2])
               /\ NodeOf(heap', t, emitted'[k][2]) = emitted'[k][1]

\* C11: full_path_name of an inserted node, and the path traverse_next returns for
\* it, is the path it was inserted with, prefix ./ROOT included
C11_PathRoundTrip == [][C11_Step]_vars

-----------------------------------------------------------------------------
(* The bins: increments with ages below, at and above every threshold of   *)
(* BIN_DAYS, and with negative ages (a file updated after the scan began). *)

MaxBinIncs == 2   \* increments that return, in SpecBins

\* ages in half days: -1.5, 0 and 100 days, and every threshold of BIN_DAYS with the
\* half day before it and the half day after it
BinAges ==
    {[n |-> n, d |-> 2] :
        n \in {-3, 0, 200} \cup
              UNION {{2 * BIN_DAYS[i] - 1, 2 * BIN_DAYS[i], 2 * BIN_DAYS[i] + 1} :
                         i \in DOMAIN BIN_DAYS}}

\* one directory
BinPaths == {pA}

BinIncrement ==
    /\ Ingesting
    /\ \E t \in DOMAIN trees : \E p \in BinPaths : \E age \in BinAges :
           Increment(t, p, age) /\ BagCardinality(recorded') <= MaxBinIncs

NextBins == GoodInsert(BinPaths) \/ BinIncrement

SpecBins == Init /\ [][NextBins]_vars

-----------------------------------------------------------------------------
(* C12: the bin of an age is the index of the first threshold the age is   *)
(* strictly less than, the last index if there is none: an age at a        *)
(* threshold is in the bin above it, a negative age in bin 0, and every    *)
(* increment of a path that has a node returns.                            *)

\* the index, from 0, of the first threshold the age is less than, else the last index
FirstLess(age) ==
    LET S == {i \in DOMAIN BIN_DAYS : age.n < BIN_DAYS[i] * age.d}
    IN  IF S = {} THEN Len(BIN_DAYS)
        ELSE (CHOOSE i \in S : \A j \in S : i <= j) - 1

RECURSIVE Copies(_, _)
Copies(S, B) ==
    IF S = {} THEN 0
    ELSE LET e == CHOOSE x \in S : TRUE IN CopiesIn(e, B) + Copies(S \ {e}, B)

\* the increments recorded at node n whose age FirstLess puts in bin i
CountedIn(n, i) ==
    Copies({e \in BagToSet(recorded) : Node(e[1]) = n /\ FirstLess(e[2]) = i}, recorded)

\* C12: every node's bin i counts the recorded ages whose first greater threshold
\* is the i-th (the last bin those that reach every threshold), and an increment of
\* an existing path returns whatever the age
C12_BinOfAge ==
    /\ \A n \in DOMAIN heap : \A i \in 0..Len(BIN_DAYS) :
           heap[n].data[i + 1] = CountedIn(n, i)
    /\ \A e \in BagToSet(recorded) : FirstLess(e[2]) \in 0..(Len(EMPTY_HISTO_DATA) - 1)
    /\ \A t \in DOMAIN trees : \A p \in BinPaths : \A age \in BinAges :
           NodeOf(heap, t, p) # None =>
               increment(heap, t, p, age, cached_results).exc = ""

\* a negative age and an age that is a threshold have been recorded
C12_Witness ==
    /\ ret.op = "increment"
    /\ ret.exc = ""
    /\ \E e \in BagToSet(recorded) : e[2].n < 0
    /\ \E e \in BagToSet(recorded) : \E i \in DOMAIN BIN_DAYS :
           e[2].n = BIN_DAYS[i] * e[2].d

-----------------------------------------------------------------------------
(* main: the lines of the scan read until "#complete#", every line of a    *)
(* file under ./ROOT counted at its directory, then the one call of        *)
(* summarize_histo_data, then the traverse that writes the output.         *)

MaxLines == 2     \* lines that are counted, in SpecMain

\* the names of files, parts[9] of a line: ./ROOT/a (a file of the root directory),
\* ./ROOT/a/b, ./ROOT/a/b/a, ./ROOT (a file named ROOT) and ./a
FileNames == {pA, pAB, Sub(pAB, <<"a">>), DotRoot, <<".", sep, "a">>}

\* a line: whether parts[8] is not empty, parts[9], and the age its times give
Lines == [isfile : BOOLEAN, name : FileNames, age : Ages]

\* s[0:n] of a str
Slice(s, n) == SubSeq(s, 1, IF Len(s) < n THEN Len(s) ELSE n)

\* where main is: an exception other than the IndexError that line 319 catches ends
\* it; else it reads lines until it has summarized, starts the traverse, and calls
\* traverse_next until that returns (None, None)
pc ==
    IF ret.exc \notin {"", "IndexError"} THEN "raised"
    ELSE IF nsum = 0 THEN "readline"
    ELSE IF nstart = 0 THEN "traverse_start"
    ELSE IF emitted = << >> \/ emitted[Len(emitted)] # << >> THEN "traverse_next"
    ELSE "return"

\* the last call made for a line, with its outcome r: what it leaves, and the line
\* counted if the call returned
Counted(op, r, dir_path, age) ==
    /\ heap' = r.heap
    /\ cached_results' = r.cache
    /\ ret' = Call(op, r)
    /\ recorded' = IF r.exc = "" THEN recorded (+) SetToBag({<<dir_path, age>>})
                   ELSE recorded
    /\ BagCardinality(recorded') <= MaxLines
    /\ UNCHANGED <<trees, notfound, pre, nsum, nstart, emitted>>

\* one turn of the while loop: a line that is not of a file under ./ROOT is passed
\* over; for one that is, increment, and on InvalidPathError insert and increment
MainLine ==
    /\ pc = "readline"
    /\ \E t \in DOMAIN trees : \E line \in Lines :
           IF line.isfile /\ Slice(line.name, 6) = DotRoot
           THEN \E dir_path \in {os_path_split(line.name)[1]} :
                \E first \in {increment(heap, t, dir_path, line.age, cached_results)} :
                    IF first.exc # "InvalidPathError"
                    THEN Counted("increment", first, dir_path, line.age)
                    ELSE \E made \in {insert(first.heap, t, dir_path, first.cache)} :
                             IF made.exc # ""
                             THEN Counted("insert", made, dir_path, line.age)
                             ELSE Counted("increment",
                                          increment(made.heap, t, dir_path, line.age,
                                                    made.cache),
                                          dir_path, line.age)
           ELSE UNCHANGED vars

\* the line "#complete#" ends the loop
MainSummarize == pc = "readline" /\ \E t \in DOMAIN trees : Summarize(t)

MainStart == pc = "traverse_start" /\ \E t \in DOMAIN trees : TraverseStart(t)

MainNext == pc = "traverse_next" /\ \E t \in DOMAIN trees : TraverseNext(t)

NextMain == MainLine \/ MainSummarize \/ MainStart \/ MainNext

SpecMain == Init /\ [][NextMain]_vars

-----------------------------------------------------------------------------
(* C13: in every run of main summarize_histo_data is called exactly once,  *)
(* after the last insert and increment, and the traverse is after it.      *)

\* C13: no insert or increment after summarizing, no traverse before it, and a run
\* of main that has ended has called summarize_histo_data once
C13_PhaseOrder ==
    /\ nsum <= 1
    /\ ret.op \in {"insert", "increment"} => (nsum = 0 /\ nstart = 0)
    /\ ret.op \in {"traverse_start", "traverse_next"} => nsum = 1
    /\ pc \in {"raised", "return"} => nsum = 1

-----------------------------------------------------------------------------
(* C14: a path with whitespace before or after it is resolved as the path  *)
(* without it: insert ends at the same node, and after the insert find and *)
(* increment with the spaced path reach that node.                         *)

C14_Step ==
    \A t \in DOMAIN trees : \A p \in SpacedPaths :
        /\ Insert(t, p) =>
               LET plain == insert(heap, t, strip(p), cached_results)
               IN  ret'.exc = "" /\ ret'.node = plain.node /\ heap' = plain.heap
        /\ (JustInserted(t, p) /\ Find(t, p)) =>
               LET plain == memoized(heap, t, strip(p), cached_results)
               IN  ret'.exc = "" /\ ret'.val = plain.val /\ ret'.val = ret.node
        /\ \A age \in TwoAges :
               (JustInserted(t, p) /\ Increment(t, p, age)) =>
                   LET plain == increment(heap, t, strip(p), age, cached_results)
                   IN  ret'.exc = "" /\ ret'.node = ret.node /\ heap' = plain.heap

\* C14: insert, find and increment of a path with surrounding whitespace do what
\* they do with the path without it
C14_WhitespaceUniform == [][C14_Step]_vars

-----------------------------------------------------------------------------
(* C15: an increment that returns adds one to one bin of the node of its   *)
(* path and changes nothing else: no other bin, no other node, no parent   *)
(* or child reference; and a node is created with counts of its own, zero. *)

C15_Step ==
    /\ \A t \in DOMAIN trees : \A p \in Paths : \A age \in TwoAges :
           (ret'.op = "increment" /\ ret'.exc = "" /\ Increment(t, p, age)) =>
               /\ WellPrefixed(p)
               /\ ret'.node # None
               /\ ret'.node = NodeOf(heap, t, p)
               /\ \E i \in DOMAIN EMPTY_HISTO_DATA :
                      heap' = [heap EXCEPT ![ret'.node].data[i] = @ + 1]
               /\ trees' = trees
    /\ \A n \in DOMAIN heap' \ DOMAIN heap : heap'[n].data = EMPTY_HISTO_DATA

\* C15: an increment that returns adds one to one bin of the node of its path and
\* leaves every other bin, every other node and the tree as they were
C15_IncrementFrame == [][C15_Step]_vars

\* an increment has returned at a node of the third level whose parent holds no count
C15_Witness ==
    /\ ret.op = "increment"
    /\ ret.exc = ""
    /\ ret.node # None
    /\ heap[ret.node].parent \notin {None, TheRoot}
    /\ heap[ret.node].data # EMPTY_HISTO_DATA
    /\ heap[heap[ret.node].parent].data = EMPTY_HISTO_DATA

-----------------------------------------------------------------------------
(* Any call at any time: the six methods of a HistoTree called in any      *)
(* order, as a user of the class other than main may call them.            *)

MaxCalls == 2     \* calls other than insert and find, in SpecAny

\* a directory, a directory in it, a path with whitespace after it, and "."
AnyPaths == {pA, pAB, pB \o <<" ">>, DOT}

\* the calls made of increment (those that returned), summarize_histo_data,
\* traverse_start and traverse_next
Calls == BagCardinality(recorded) + nsum + nstart + Len(emitted)

AnyInsert == \E t \in DOMAIN trees : \E p \in AnyPaths : Insert(t, p)

AnyFind == \E t \in DOMAIN trees : \E p \in AnyPaths : Find(t, p)

AnyIncrement ==
    \E t \in DOMAIN trees : \E p \in AnyPaths : \E age \in TwoAges :
        Increment(t, p, age) /\ Calls' <= MaxCalls

AnySummarize == Calls < MaxCalls /\ \E t \in DOMAIN trees : Summarize(t)

AnyStart == Calls < MaxCalls /\ \E t \in DOMAIN trees : TraverseStart(t)

AnyNext == Calls < MaxCalls /\ \E t \in DOMAIN trees : TraverseNext(t)

NextAny ==
    AnyInsert \/ AnyFind \/ AnyIncrement \/ AnySummarize \/ AnyStart \/ AnyNext

SpecAny == Init /\ [][NextAny]_vars

-----------------------------------------------------------------------------
(* C16: the nodes are the root and, for every path an insert returned for, *)
(* one node for the path and one for every directory above it; no other    *)
(* call adds a node and no call removes one.                               *)

\* the names from below the root down to the node
RECURSIVE Segs(_, _)
Segs(h, node) ==
    IF h[node].parent = None THEN << >>
    ELSE Append(Segs(h, h[node].parent), h[node].name)

NodeSegs(h) == {Segs(h, n) : n \in DOMAIN h}

\* the path and the directories above it, down from ./ROOT, as names below the root
PrefixClosure(p) ==
    LET dirs == split(p) IN {SubSeq(dirs, 3, k) : k \in 2..Len(dirs)}

\* what the nodes are by the claim, step by step: the root at first, after an insert
\* that returned the nodes there were and the prefix closure of its path, and after
\* any other call the nodes there were; no two nodes are of one path
C16_Step ==
    /\ Len(heap') >= Len(heap)
    /\ Cardinality(NodeSegs(heap')) = Len(heap')
    /\ ret'.op # "insert" => NodeSegs(heap') = NodeSegs(heap)
    /\ ret'.op = "insert" =>
           \A t \in DOMAIN trees : \A p \in AnyPaths :
               Insert(t, p) =>
                   NodeSegs(heap') =
                       NodeSegs(heap) \cup
                           (IF ret'.exc = "" THEN PrefixClosure(strip(p)) ELSE {})

\* C16: the nodes are exactly the root and the prefix closure of the paths inserted;
\* find, increment, summarize_histo_data and the traverse add none, nothing removes one
C16_NodesAreInserted ==
    /\ NodeSegs(heap) = {<< >>}
    /\ [][C16_Step]_vars

\* three nodes made by one insert, one of them for the directory above its path,
\* and a call of another method since
C16_Witness ==
    /\ NodeSegs(heap) = PrefixClosure(pAB)
    /\ \A n \in DOMAIN heap : DOMAIN heap[n].children \subseteq {<<"a">>, <<"b">>}
    /\ ret.op \notin {"insert", "HistoTree"}
    /\ nsum + nstart > 0

-----------------------------------------------------------------------------
(* C17: the nodes are a tree under the root: the root has no parent, every *)
(* other node is in the children of its parent, and of no other node, by   *)
(* its name, every entry of a children dictionary is a node of that name   *)
(* whose parent is the owner, and the parents of a node lead to the root.  *)

\* the k-th node above the node by the parent references, None beyond the root
RECURSIVE Above(_, _, _)
Above(h, node, k) ==
    IF k = 0 \/ node = None THEN node ELSE Above(h, h[node].parent, k - 1)

\* the nodes that have the node among the values of their children
Owners(h, node) == {m \in DOMAIN h : node \in Values(h[m].children)}

\* C17: the root has no parent, every other node has one parent, which holds it by
\* its name, every child is held by its name by its parent, and no node is above
\* itself: the root is above every node within as many steps as there are nodes
C17_RootedTree ==
    \A t \in DOMAIN trees :
        LET root == trees[t]._root
        IN  /\ heap[root].parent = None
            /\ Owners(heap, root) = {}
            /\ \A n \in DOMAIN heap \ {root} :
                   /\ heap[n].parent \in DOMAIN heap
                   /\ Owners(heap, n) = {heap[n].parent}
                   /\ get_child(heap, heap[n].parent, heap[n].name) = n
                   /\ \E k \in 1..Len(heap) : Above(heap, n, k) = root
            /\ \A n \in DOMAIN heap : \A key \in DOMAIN heap[n].children :
                   LET child == heap[n].children[key]
                   IN  /\ child \in DOMAIN heap
                       /\ heap[child].name = key
                       /\ heap[child].parent = n

\* two directories in the root and one in one of them
C17_Witness ==
    /\ Len(heap) > 3
    /\ Cardinality(DOMAIN heap[TheRoot].children) > 1
    /\ \E n \in DOMAIN heap : Above(heap, n, 2) = TheRoot

-----------------------------------------------------------------------------
(* C18: summarize_histo_data called a second time adds the counts of the   *)
(* descendants to their ancestors again: if a node other than the root     *)
(* holds a count, the root's counts after the second call are not the sums *)
(* over the tree of the counts before the first.                           *)

\* a node other than the root held a count before the first call
CountsBelowRoot == \E n \in DOMAIN pre : n # TheRoot /\ pre[n] # EMPTY_HISTO_DATA

\* the sums over the whole tree of the counts before the first call
SumsOfPre == [i \in DOMAIN EMPTY_HISTO_DATA |-> SumOver(Subtree(heap, TheRoot), pre, i)]

\* C18: after the second call the root's counts are not the sums of the counts
\* before aggregation, some bin being greater: the second call counted twice
C18_SecondCallDoubleCounts ==
    (nsum > 1 /\ CountsBelowRoot) =>
        /\ heap[TheRoot].data # SumsOfPre
        /\ \A i \in DOMAIN EMPTY_HISTO_DATA : heap[TheRoot].data[i] >= SumsOfPre[i]
        /\ \E i \in DOMAIN EMPTY_HISTO_DATA : heap[TheRoot].data[i] > SumsOfPre[i]

\* the second call has been made on a tree with counts at the second and third level
C18_Witness ==
    /\ nsum > 1
    /\ ret.op = "summarize_histo_data"
    /\ \E n \in DOMAIN pre :
           /\ pre[n] # EMPTY_HISTO_DATA
           /\ heap[n].parent \notin {None, TheRoot}
           /\ pre[heap[n].parent] # EMPTY_HISTO_DATA

-----------------------------------------------------------------------------
(* Several trees: memoize keeps one dictionary for the function it wraps,  *)
(* so the HistoTree objects of a process share it, keyed by (self, path).  *)

MaxTrees == 2     \* HistoTree objects, in SpecTrees

\* the directory that is made in a tree, with the one above it, and counted
TreeDirs == {pAB}

\* what is looked for: that directory, the one above it, and "."
TreePaths == {pA, pAB, DOT}

\* tree = HistoTree(): a root of its own and an empty deque
NewTree ==
    /\ Len(trees) < MaxTrees
    /\ heap' = Append(heap, HistoNode(ROOT, None))
    /\ trees' = Append(trees, HistoTree(Len(heap) + 1))
    /\ ret' = Void("HistoTree")
    /\ UNCHANGED <<cached_results, notfound, recorded, pre, nsum, nstart, emitted>>

TreesInsert == \E t \in DOMAIN trees : \E p \in TreeDirs : Insert(t, p)

TreesFind == \E t \in DOMAIN trees : \E p \in TreePaths : Find(t, p)

TreesIncrement ==
    \E t \in DOMAIN trees : \E p \in TreeDirs : \E age \in {HalfDay} :
        Increment(t, p, age) /\ BagCardinality(recorded') <= MaxIncs

NextTrees == NewTree \/ TreesInsert \/ TreesFind \/ TreesIncrement

SpecTrees == Init /\ [][NextTrees]_vars

-----------------------------------------------------------------------------
(* C19: every entry of the cache is the node its path has now in its tree, *)
(* and find with the cache returns, or raises, what find without it does.  *)

\* C19: an entry (tree, path) of the cache is the node reached from that tree's root
\* along the path, and the memoized find does what find with an empty cache does
C19_MemoTransparent ==
    /\ \A args \in DOMAIN cached_results :
           /\ args[1] \in DOMAIN trees
           /\ WellPrefixed(args[2])
           /\ cached_results[args] # None
           /\ cached_results[args] = NodeOf(heap, args[1], args[2])
    /\ \A t \in DOMAIN trees : \A p \in TreePaths :
           LET cached == memoized(heap, t, p, cached_results)
               fresh == memoized(heap, t, p, << >>)
           IN  cached.exc = fresh.exc /\ cached.val = fresh.val

\* the same path is cached for two trees, with a node of each, and the path of a
\* directory is cached with the path of the directory above it
C19_Witness ==
    /\ \E t1, t2 \in DOMAIN trees : \E p \in TreePaths :
           /\ t1 # t2
           /\ <<t1, p>> \in DOMAIN cached_results
           /\ <<t2, p>> \in DOMAIN cached_results
           /\ cached_results[<<t1, p>>] # cached_results[<<t2, p>>]
    /\ \E a1, a2 \in DOMAIN cached_results :
           heap[cached_results[a2]].parent = cached_results[a1]
    /\ ret.op = "find"
    /\ ret.val # None

-----------------------------------------------------------------------------
(* C20: whenever traverse_start is called, the calls of traverse_next that *)
(* follow return every node of the tree once, the root first, and then     *)
(* (None, None).                                                           *)

\* the nodes the calls of traverse_next return, from a deque, until it is empty
RECURSIVE Drain(_, _)
Drain(h, queue) ==
    IF queue = << >> THEN << >>
    ELSE <<Head(queue)>> \o Drain(h, AppendChildren(h, Tail(queue), Head(queue)))

C20_Step ==
    \A t \in DOMAIN trees :
        TraverseStart(t) =>
            LET out == Drain(heap', trees'[t]._traverse_nodes)
            IN  /\ Len(out) = Len(heap')
                /\ out[1] = trees'[t]._root
                /\ \A n \in DOMAIN heap' :
                       Cardinality({k \in DOMAIN out : out[k] = n}) = 1

\* C20: after any call of traverse_start, a second one included, the traverse
\* returns every node once, the root first
C20_StartInitializes == [][C20_Step]_vars

====
